---- MODULE Spec2Model ----
(***************************************************************************)
(* Prayer.py: the solar-position and time-conversion engine                *)
(* (julian_day, solar_declination, equation_of_time, solar_noon, asr_time, *)
(* last_third_time), modelled as calls of pure functions.                  *)
(*                                                                         *)
(* Number representation.  Python floats are carried as fixed-point        *)
(* integers:                                                               *)
(*   - a Julian Day JD is carried as the integer 2*JD (half-days);         *)
(*   - an angle is carried in millidegrees (360 degrees = 360000); the     *)
(*     degree/radian conversions math.radians and math.degrees change the  *)
(*     unit of the float, not the angle, and the trigonometric operators   *)
(*     below take and return millidegrees;                                 *)
(*   - a sine, cosine or ratio of them is carried times TrigScale;         *)
(*   - a decimal hour is carried times HourScale (1 unit = 0.36 s);        *)
(*   - a latitude or longitude is carried in 1/10000 degree.               *)
(* A clock string "HH:MM" is the sequence of its five characters.          *)
(* The fixed-point values follow the floats to about 0.01 degree and half  *)
(* a minute of asr_utc; the formulas below state orderings, ranges and     *)
(* outcomes, none of them an exact minute of asr_time.                     *)
(***************************************************************************)
EXTENDS Integers, Sequences, FiniteSets, TLC

VARIABLES
    pc,     \* "idle" | "called" | "done": position of the caller
    fn,     \* the function under call
    arg,    \* its arguments
    loc,    \* its local variables at the point where it returned or raised
    out     \* [status, value]: "OK" and the return value, or the exception raised

vars == <<pc, fn, arg, loc, out>>

----------------------------------------------------------------------------
(* Bounds of the explored inputs *)

YearSpan == 2        \* years explored on each side of an anchor year
JDSpan == 400        \* Julian Days explored on each side of an equation_of_time epoch, in half-days
MinuteStep == 10     \* clock strings explored: minutes that are multiples of it
MaxShadow == 2       \* shadow lengths explored: 1..MaxShadow

----------------------------------------------------------------------------
(* Arithmetic helpers *)

TrigScale == 10000
HourScale == 10000

Abs(x) == IF x < 0 THEN -x ELSE x

\* a call that raised before it set any local of interest
NoLocals == [none |-> TRUE]

\* Python's min and max of two numbers
PyMin(a, b) == IF a <= b THEN a ELSE b
PyMax(a, b) == IF a >= b THEN a ELSE b

\* Python's int() of the float a/b (b > 0): truncation towards zero
Trunc(a, b) == IF a >= 0 THEN a \div b ELSE -((-a) \div b)

\* floor(a*b/c) without leaving 32 bits (c > 0, 0 <= b, b*c < 2^31)
MulDiv(a, b, c) == (a \div c) * b + (((a % c) * b) \div c)

----------------------------------------------------------------------------
(* The Gregorian calendar of datetime (the specification side of "valid    *)
(* date" and "calendar successor")                                         *)

MINYEAR == 1
MAXYEAR == 9999

IsLeap(y) == (y % 4 = 0) /\ ((y % 100 # 0) \/ (y % 400 = 0))

DaysInMonth(y, m) ==
    IF m = 2 THEN (IF IsLeap(y) THEN 29 ELSE 28)
    ELSE IF m \in {4, 6, 9, 11} THEN 30 ELSE 31

Date(y, m, d) == [year |-> y, month |-> m, day |-> d]

NextDate(date) ==
    IF date.day < DaysInMonth(date.year, date.month)
    THEN Date(date.year, date.month, date.day + 1)
    ELSE IF date.month < 12
    THEN Date(date.year, date.month + 1, 1)
    ELSE Date(date.year + 1, 1, 1)

\* datetime.toordinal: days since 0001-01-01, which is day 1
DaysBeforeMonth(y, m) ==
    LET RECURSIVE Sum(_)
        Sum(k) == IF k = 0 THEN 0 ELSE DaysInMonth(y, k) + Sum(k - 1)
    IN Sum(m - 1)

toordinal(date) ==
    LET y == date.year - 1
    IN y * 365 + (y \div 4) - (y \div 100) + (y \div 400)
       + DaysBeforeMonth(date.year, date.month) + date.day

MaxOrdinal == toordinal(Date(MAXYEAR, 12, 31))

----------------------------------------------------------------------------
(* julian_day: returns 2*JD *)

\* mutant: the month <= 2 shift to month + 12 of the previous year is left out
julian_day_noshift(year, month, day) ==
    LET A == year \div 100
        B == 2 - A + (A \div 4)
    IN 2 * (Trunc(36525 * (year + 4716), 100) + Trunc(306001 * (month + 1), 10000)
            + day + B) - 3049

julian_day(year, month, day) ==
    LET y == IF month <= 2 THEN year - 1 ELSE year
        m == IF month <= 2 THEN month + 12 ELSE month
        A == y \div 100
        B == 2 - A + (A \div 4)
    IN 2 * (Trunc(36525 * (y + 4716), 100) + Trunc(306001 * (m + 1), 10000)
            + day + B) - 3049

----------------------------------------------------------------------------
(* math.sin, math.cos, math.asin, math.acos, math.atan, math.atan2 in fixed *)
(* point: angles in millidegrees, values times TrigScale                   *)

\* TrigScale * sin(d degrees), d = 0..90, rounded
SinTable ==
    << 0, 175, 349, 523, 698, 872, 1045, 1219, 1392, 1564, 1736, 1908, 2079,
       2250, 2419, 2588, 2756, 2924, 3090, 3256, 3420, 3584, 3746, 3907, 4067, 4226,
       4384, 4540, 4695, 4848, 5000, 5150, 5299, 5446, 5592, 5736, 5878, 6018, 6157,
       6293, 6428, 6561, 6691, 6820, 6947, 7071, 7193, 7314, 7431, 7547, 7660, 7771,
       7880, 7986, 8090, 8192, 8290, 8387, 8480, 8572, 8660, 8746, 8829, 8910, 8988,
       9063, 9135, 9205, 9272, 9336, 9397, 9455, 9511, 9563, 9613, 9659, 9703, 9744,
       9781, 9816, 9848, 9877, 9903, 9925, 9945, 9962, 9976, 9986, 9994, 9998, 10000 >>

\* sine of an angle of the first quadrant, 0..90000, by linear interpolation
SinQ(a) ==
    LET d == a \div 1000
        f == a % 1000
    IN IF d >= 90 THEN SinTable[91]
       ELSE SinTable[d + 1] + ((SinTable[d + 2] - SinTable[d + 1]) * f) \div 1000

Sin(a) ==
    LET r == a % 360000
    IN IF r <= 90000 THEN SinQ(r)
       ELSE IF r <= 180000 THEN SinQ(180000 - r)
       ELSE IF r <= 270000 THEN -SinQ(r - 180000)
       ELSE -SinQ(360000 - r)

Cos(a) == Sin(a + 90000)

\* the conditions the inverse functions search on, each non-decreasing in the
\* angle a over the range searched
Up(f, x, y, a) ==
    CASE f = "asin" -> Sin(a) >= x
      [] f = "acos" -> Cos(a) <= x
      [] f = "atan2" -> x * Sin(a) >= y * Cos(a)

\* the least angle of lo+1..hi where Up holds (it holds at hi)
RECURSIVE Bisect(_, _, _, _, _)
Bisect(f, x, y, lo, hi) ==
    IF hi - lo <= 1 THEN hi
    ELSE LET mid == (lo + hi) \div 2
         IN IF Up(f, x, y, mid) THEN Bisect(f, x, y, lo, mid)
            ELSE Bisect(f, x, y, mid, hi)

\* math.asin of s/TrigScale, -TrigScale <= s <= TrigScale: an angle of -90000..90000
Asin(s) == Bisect("asin", s, 0, -90001, 90000)

\* math.acos of x/TrigScale, -TrigScale <= x <= TrigScale: an angle of 0..180000
Acos(x) == Bisect("acos", x, 0, -1, 180000)

\* math.atan2(y, x), |x| and |y| at most TrigScale: an angle of -180000..180000
Atan2(y, x) ==
    LET ay == Abs(y)
        ax == Abs(x)
        b == IF ax = 0 /\ ay = 0 THEN 0 ELSE Bisect("atan2", ax, ay, -1, 90000)
    IN IF x >= 0 THEN (IF y >= 0 THEN b ELSE -b)
       ELSE (IF y >= 0 THEN 180000 - b ELSE b - 180000)

\* math.atan(num/den), num >= 0, den > 0
Atan(num, den) == Atan2(num, den)

----------------------------------------------------------------------------
(* The low-precision solar elements, shared by solar_declination and       *)
(* equation_of_time.  n2 = 2*n, n = JD - 2451545.0                         *)

DaysSinceEpoch2(JD2) == JD2 - 2 * 2451545

\* g = (357.529 + 0.98560028*n) % 360, that is 492.80014 millidegrees a half-day
MeanAnomaly(n2) ==
    (357529 + 492 * (n2 % 360000) + MulDiv(n2, 8001, 10000) + (n2 \div 25000)) % 360000

\* q = (280.459 + 0.98564736*n) % 360, that is 492.82368 millidegrees a half-day
MeanLongitude(n2) ==
    (280459 + 492 * (n2 % 360000) + MulDiv(n2, 8236, 10000) + (n2 \div 12500)) % 360000

\* L = (q + 1.915*sin(g) + 0.020*sin(2g)) % 360
EclipticLongitude(n2) ==
    LET g == MeanAnomaly(n2)
        q == MeanLongitude(n2)
    IN (q + ((1915 * Sin(g)) \div TrigScale) + ((20 * Sin(2 * g)) \div TrigScale)) % 360000

\* e = 23.439 - 0.00000036*n
Obliquity(n2) == 23439 - (9 * n2) \div 50000

\* solar_declination: the angle math.asin returns
solar_declination(JD2) ==
    LET n2 == DaysSinceEpoch2(JD2)
        L == EclipticLongitude(n2)
        e == Obliquity(n2)
        sin_decl == (Sin(e) * Sin(L)) \div TrigScale
    IN Asin(sin_decl)

\* RA = degrees(atan2(cos(e)*sin(L), cos(L))) % 360
RightAscension(n2) ==
    LET L == EclipticLongitude(n2)
        e == Obliquity(n2)
    IN Atan2((Cos(e) * Sin(L)) \div TrigScale, Cos(L)) % 360000

\* eq_time = q/15 - RA/15, in hours (times HourScale)
EqTimeRaw(n2) == ((MeanLongitude(n2) - RightAscension(n2)) * 2) \div 3

\* mutant: the add-or-subtract-24 step is left out
EqTimeNormalize_none(eq_time) == eq_time

\* if eq_time > 12: eq_time -= 24; elif eq_time < -12: eq_time += 24
EqTimeNormalize(eq_time) ==
    IF eq_time > 12 * HourScale THEN eq_time - 24 * HourScale
    ELSE IF eq_time < -12 * HourScale THEN eq_time + 24 * HourScale
    ELSE eq_time

\* the locals of equation_of_time when it returns
EqtLocals(JD2) ==
    LET n2 == DaysSinceEpoch2(JD2)
    IN [q |-> MeanLongitude(n2),
        RA |-> RightAscension(n2),
        raw |-> EqTimeRaw(n2),
        eq_time |-> EqTimeNormalize(EqTimeRaw(n2))]

\* equation_of_time: minutes (times HourScale)
equation_of_time(JD2) == EqtLocals(JD2).eq_time * 60

\* solar_noon: noon = 12 - longitude/15 - eqt/60, a UTC decimal hour
solar_noon(longitude, JD2) ==
    12 * HourScale - (longitude \div 15) - (equation_of_time(JD2) \div 60)

----------------------------------------------------------------------------
(* Clock strings, datetime values and the timezone database                *)

DigitChars == <<"0", "1", "2", "3", "4", "5", "6", "7", "8", "9">>

IsDigit(c) == \E i \in 1..10 : DigitChars[i] = c

DigitVal(c) == (CHOOSE i \in 1..10 : DigitChars[i] = c) - 1

\* what strptime(s, "%H:%M") accepts, among the five-character strings
IsClockString(s) ==
    /\ Len(s) = 5
    /\ s[3] = ":"
    /\ \A i \in {1, 2, 4, 5} : IsDigit(s[i])
    /\ 10 * DigitVal(s[1]) + DigitVal(s[2]) <= 23
    /\ 10 * DigitVal(s[4]) + DigitVal(s[5]) <= 59

\* datetime.strptime(s, "%H:%M"): the hour and the minute
strptime(s) ==
    [hour |-> 10 * DigitVal(s[1]) + DigitVal(s[2]),
     minute |-> 10 * DigitVal(s[4]) + DigitVal(s[5])]

\* a datetime: the ordinal of its date and the second of its day
\* .replace(year=date.year, month=date.month, day=date.day) of a parsed time
AttachDate(t, date) ==
    [ord |-> toordinal(date), sec |-> t.hour * 3600 + t.minute * 60]

\* datetime + timedelta of `seconds`, before the range check
DtAdd(dt, seconds) ==
    LET total == dt.sec + seconds
    IN [ord |-> dt.ord + (total \div 86400), sec |-> total % 86400]

\* the date of a datetime must stay within 0001-01-01 .. 9999-12-31
DtInRange(dt) == dt.ord >= 1 /\ dt.ord <= MaxOrdinal

\* datetime <= datetime
DtLE(a, b) == a.ord < b.ord \/ (a.ord = b.ord /\ a.sec <= b.sec)

\* datetime - datetime, a timedelta in seconds
DtSub(a, b) == (a.ord - b.ord) * 86400 + (a.sec - b.sec)

\* .strftime("%H:%M"): the date and the seconds are dropped
strftime(dt) ==
    LET h == dt.sec \div 3600
        m == (dt.sec % 3600) \div 60
    IN << DigitChars[(h \div 10) + 1], DigitChars[(h % 10) + 1], ":",
          DigitChars[(m \div 10) + 1], DigitChars[(m % 10) + 1] >>

\* pytz: the zones known to the database, with their UTC offset in minutes
\* (zones without daylight-saving time)
TzDatabase ==
    [zone \in {"UTC", "Asia/Kolkata", "America/Phoenix"} |->
        CASE zone = "UTC" -> 0
          [] zone = "Asia/Kolkata" -> 330
          [] zone = "America/Phoenix" -> -420]

\* pytz.timezone(tz) raises UnknownTimeZoneError unless the zone is known
TzKnown(tz) == tz \in DOMAIN TzDatabase

----------------------------------------------------------------------------
(* asr_time *)

\* mutant: the angle of a shadow ratio inverted, atan(shadow_len)
AsrAngle_inverted(shadow_len) == Atan(shadow_len, 1)

\* angle = math.atan(1 / shadow_len)
AsrAngle(shadow_len) == Atan(1, shadow_len)

\* the denominator cos(lat_rad)*cos(decl) of cosH
CosHDenominator(lat, decl) == (Cos(lat \div 10) * Cos(decl)) \div TrigScale

\* cosH = (sin(angle) - sin(lat_rad)*sin(decl)) / (cos(lat_rad)*cos(decl))
CosHRatio(lat, decl, angle) ==
    LET num == Sin(angle) - (Sin(lat \div 10) * Sin(decl)) \div TrigScale
    IN (num * TrigScale) \div CosHDenominator(lat, decl)

\* mutant: the ratio is passed on as computed
Clamp_none(cosH) == cosH

\* cosH = min(1, max(-1, cosH))
Clamp(cosH) == PyMin(TrigScale, PyMax(-TrigScale, cosH))

\* mutant: the minute rounded to the nearest instead of truncated
MinuteOf_rounded(asr_utc, hr) ==
    Trunc((asr_utc - hr * HourScale) * 60 + (HourScale \div 2), HourScale)

\* mn = int((asr_utc - hr) * 60)
MinuteOf(asr_utc, hr) == Trunc((asr_utc - hr * HourScale) * 60, HourScale)

\* The locals of asr_time after line 56 (the timezone is not used before).
\* Each group of statements binds its values once, from the values bound
\* before it, as the assignments of the code do.
AsrLocals(lat, lon, date, shadow_len) ==
    LET \* lines 45-49
        s1 == { [JD |-> JD,
                 decl |-> solar_declination(JD),
                 noon_utc |-> solar_noon(lon, JD),
                 angle |-> AsrAngle(shadow_len)]
                : JD \in {julian_day(date.year, date.month, date.day)} }
        \* line 50
        s2 == { [a |-> a,
                 den |-> CosHDenominator(lat, a.decl),
                 ratio |-> IF CosHDenominator(lat, a.decl) = 0 THEN 0
                           ELSE CosHRatio(lat, a.decl, a.angle)]
                : a \in s1 }
        \* lines 51-52
        s3 == { [b |-> b, cosH |-> Clamp(b.ratio), H |-> Acos(Clamp(b.ratio))]
                : b \in s2 }
        \* lines 53-55
        s4 == { [c |-> c,
                 asr_utc |-> c.b.a.noon_utc + ((c.H * 2) \div 3),
                 hr |-> Trunc(c.b.a.noon_utc + ((c.H * 2) \div 3), HourScale)]
                : c \in s3 }
        \* line 56
        s5 == { [JD |-> d.c.b.a.JD, decl |-> d.c.b.a.decl,
                 noon_utc |-> d.c.b.a.noon_utc, angle |-> d.c.b.a.angle,
                 den |-> d.c.b.den, ratio |-> d.c.b.ratio,
                 cosH |-> d.c.cosH, H |-> d.c.H, H_h |-> (d.c.H * 2) \div 3,
                 asr_utc |-> d.asr_utc, hr |-> d.hr,
                 mn |-> MinuteOf(d.asr_utc, d.hr)]
                : d \in s4 }
    IN CHOOSE l \in s5 : TRUE

Raise(exception, message) == [status |-> exception, value |-> message]

\* lines 57-58 of asr_time: the outcome, each failing step in the order of
\* the code, from the locals l
AsrOutcome(l, date, tz) ==
    IF l.den = 0 THEN Raise("ZeroDivisionError", "float division by zero")
    ELSE IF l.cosH < -TrigScale \/ l.cosH > TrigScale
    THEN Raise("ValueError", "math domain error")
    ELSE IF l.hr < 0 \/ l.hr > 23
    THEN Raise("ValueError", "hour must be in 0..23")
    ELSE IF l.mn < 0 \/ l.mn > 59
    THEN Raise("ValueError", "minute must be in 0..59")
    ELSE IF ~TzKnown(tz) THEN Raise("UnknownTimeZoneError", tz)
    ELSE IF ~DtInRange(DtAdd([ord |-> toordinal(date), sec |-> l.hr * 3600 + l.mn * 60],
                             TzDatabase[tz] * 60))
    THEN Raise("OverflowError", "date value out of range")
    ELSE [status |-> "OK",
          value |-> strftime(DtAdd([ord |-> toordinal(date),
                                    sec |-> l.hr * 3600 + l.mn * 60],
                                   TzDatabase[tz] * 60))]

\* asr_time: its locals and its outcome
asr_time(lat, lon, date, shadow_len, tz) ==
    CHOOSE r \in { [loc |-> l, out |-> AsrOutcome(l, date, tz)]
                   : l \in {AsrLocals(lat, lon, date, shadow_len)} } : TRUE

----------------------------------------------------------------------------
(* last_third_time *)

\* mutant: dawn moved to the next day only when strictly before sunset
DawnRollsOver_strict(fajr, sunset) == ~DtLE(sunset, fajr)

\* if fajr <= sunset
DawnRollsOver(fajr, sunset) == DtLE(fajr, sunset)

\* night_duration * 2/3: a timedelta times 2, then divided by 3 and rounded
\* to the microsecond; exact here, night_duration being whole minutes
TwoThirds(night_duration) == (night_duration * 2) \div 3

\* mutant: the result converted to the timezone's wall clock
last_third_time_localized(sunset_str, fajr_str, timezone_str, date) ==
    IF ~TzKnown(timezone_str)
    THEN [loc |-> NoLocals, out |-> Raise("UnknownTimeZoneError", timezone_str)]
    ELSE IF ~IsClockString(sunset_str) \/ ~IsClockString(fajr_str)
    THEN [loc |-> NoLocals, out |-> Raise("ValueError", "time data does not match format")]
    ELSE
      LET sunset == AttachDate(strptime(sunset_str), date)
          fajr0 == AttachDate(strptime(fajr_str), date)
          rolls == DawnRollsOver(fajr0, sunset)
          fajr == IF rolls THEN DtAdd(fajr0, 86400) ELSE fajr0
          night_duration == DtSub(fajr, sunset)
          last_third == DtAdd(sunset, TwoThirds(night_duration) + TzDatabase[timezone_str] * 60)
      IN IF ~DtInRange(fajr)
         THEN [loc |-> [sunset |-> sunset],
               out |-> Raise("OverflowError", "date value out of range")]
         ELSE [loc |-> [sunset |-> sunset, fajr |-> fajr,
                        night_duration |-> night_duration, last_third |-> last_third],
               out |-> [status |-> "OK", value |-> strftime(last_third)]]

\* the outcome of last_third_time, each failing step in the order of the code
last_third_time(sunset_str, fajr_str, timezone_str, date) ==
    IF ~TzKnown(timezone_str)
    THEN [loc |-> NoLocals, out |-> Raise("UnknownTimeZoneError", timezone_str)]
    ELSE IF ~IsClockString(sunset_str) \/ ~IsClockString(fajr_str)
    THEN [loc |-> NoLocals, out |-> Raise("ValueError", "time data does not match format")]
    ELSE
      LET sunset == AttachDate(strptime(sunset_str), date)
          fajr0 == AttachDate(strptime(fajr_str), date)
          rolls == DawnRollsOver(fajr0, sunset)
          fajr == IF rolls THEN DtAdd(fajr0, 86400) ELSE fajr0
          night_duration == DtSub(fajr, sunset)
          last_third == DtAdd(sunset, TwoThirds(night_duration))
      IN IF ~DtInRange(fajr)
         THEN [loc |-> [sunset |-> sunset],
               out |-> Raise("OverflowError", "date value out of range")]
         ELSE IF ~DtInRange(last_third)
         THEN [loc |-> [sunset |-> sunset, fajr |-> fajr,
                        night_duration |-> night_duration],
               out |-> Raise("OverflowError", "date value out of range")]
         ELSE [loc |-> [sunset |-> sunset, fajr |-> fajr,
                        night_duration |-> night_duration, last_third |-> last_third],
               out |-> [status |-> "OK", value |-> strftime(last_third)]]

----------------------------------------------------------------------------
(* The caller *)

NoArg == [none |-> TRUE]
NoLoc == NoLocals
NoOut == [status |-> "none", value |-> 0]

Init ==
    /\ pc = "idle"
    /\ fn = "none"
    /\ arg = NoArg
    /\ loc = NoLoc
    /\ out = NoOut

\* the call has returned or raised; the caller goes on to its next call
Return ==
    /\ pc = "done"
    /\ pc' = "idle"
    /\ fn' = "none"
    /\ arg' = NoArg
    /\ loc' = NoLoc
    /\ out' = NoOut

----------------------------------------------------------------------------
(* Calls of julian_day on successive days *)

AnchorYears == {1900, 2000, 2024, 2100, MAXYEAR}

CalYears ==
    (MINYEAR .. (MINYEAR + YearSpan))
    \cup UNION {((a - YearSpan) .. (a + YearSpan)) : a \in AnchorYears}

\* a first call, on the first of January of an explored year
JDCall ==
    /\ pc = "idle"
    /\ \E y \in CalYears :
          arg' = [date |-> Date(y, 1, 1), prev |-> NoArg]
    /\ pc' = "called"
    /\ fn' = "julian_day"
    /\ UNCHANGED <<loc, out>>

JDRun ==
    /\ pc = "called"
    /\ fn = "julian_day"
    /\ out' = [status |-> "OK",
               value |-> julian_day(arg.date.year, arg.date.month, arg.date.day)]
    /\ pc' = "done"
    /\ UNCHANGED <<fn, arg, loc>>

\* the next call, on the following calendar day; the previous day's date and
\* result are kept for comparison
JDNextDay ==
    /\ pc = "done"
    /\ fn = "julian_day"
    /\ NextDate(arg.date).year \in CalYears \cup {y + 1 : y \in CalYears}
    /\ arg.date.year \in CalYears
    /\ arg' = [date |-> NextDate(arg.date),
               prev |-> [date |-> arg.date, JD |-> out.value]]
    /\ pc' = "called"
    /\ out' = NoOut
    /\ UNCHANGED <<fn, loc>>

NextJD == JDCall \/ JDRun \/ JDNextDay \/ Return

SpecJD == Init /\ [][NextJD]_vars

JDDone == pc = "done" /\ fn = "julian_day"

\* C3: for a date and its calendar successor, julian_day differs by exactly
\* one day (2 half-days), across month ends, year ends, the month <= 2 shift,
\* leap days and century years.
C3_JulianDayStep ==
    (JDDone /\ arg.prev # NoArg)
        => /\ arg.date = NextDate(arg.prev.date)
           /\ out.value - arg.prev.JD = 2

\* witness: the step from 28 February to 1 March of the century year 1900
\* (not a leap year), which crosses the month <= 2 shift
C3_Witness ==
    /\ JDDone
    /\ arg.prev # NoArg
    /\ arg.prev.date = Date(1900, 2, 28)
    /\ arg.date = Date(1900, 3, 1)
    /\ out.value - arg.prev.JD = 2

----------------------------------------------------------------------------
(* Calls of equation_of_time *)

\* the Julian Days around which equation_of_time is explored: J2000.0, the
\* March equinox of 2024, and the first and last days of datetime
EqtEpochs ==
    { 2 * 2451545,
      julian_day(2024, 3, 20),
      julian_day(MINYEAR, 1, 1),
      julian_day(MAXYEAR, 12, 31) }

EqtInputs == {e + k : e \in EqtEpochs, k \in (-JDSpan)..JDSpan}

EqtCall ==
    /\ pc = "idle"
    /\ \E JD2 \in EqtInputs : arg' = [JD |-> JD2]
    /\ pc' = "called"
    /\ fn' = "equation_of_time"
    /\ UNCHANGED <<loc, out>>

EqtRun ==
    /\ pc = "called"
    /\ fn = "equation_of_time"
    /\ \E l \in {EqtLocals(arg.JD)} :
          /\ loc' = l
          /\ out' = [status |-> "OK", value |-> l.eq_time * 60]
    /\ pc' = "done"
    /\ UNCHANGED <<fn, arg>>

NextEqt == EqtCall \/ EqtRun \/ Return

SpecEqt == Init /\ [][NextEqt]_vars

EqtDone == pc = "done" /\ fn = "equation_of_time"

\* C5: q and RA are normalized into [0, 360), so q/15 - RA/15 lies strictly
\* between -24 and 24 hours, and after the add-or-subtract-24 step the value
\* lies in [-12, 12] hours; the returned minutes lie in [-720, 720].
C5_EqTimeWithin12Hours ==
    EqtDone =>
        /\ loc.q >= 0 /\ loc.q < 360000
        /\ loc.RA >= 0 /\ loc.RA < 360000
        /\ loc.raw > -24 * HourScale /\ loc.raw < 24 * HourScale
        /\ loc.eq_time >= -12 * HourScale /\ loc.eq_time <= 12 * HourScale
        /\ out.value >= -720 * HourScale /\ out.value <= 720 * HourScale

\* witness: q/15 - RA/15 is above 12 hours (RA has wrapped past 0, q has not)
\* and the step has subtracted 24
C5_Witness ==
    /\ EqtDone
    /\ loc.raw > 12 * HourScale
    /\ loc.eq_time = loc.raw - 24 * HourScale
    /\ loc.eq_time >= -12 * HourScale /\ loc.eq_time <= 12 * HourScale

----------------------------------------------------------------------------
(* Calls of asr_time *)

\* coordinates in 1/10000 degree: the bounds of the documented range, the
\* equator and Greenwich, Sydney, Mecca, Los Angeles, 60 N
Latitudes == {-660000, -338700, 0, 214225, 340500, 600000, 660000}
Longitudes == {-1800000, -1182400, 0, 398262, 1800000}

AsrDates ==
    {Date(2024, m, d) : m \in 1..12, d \in {1, 11, 21}} \cup {Date(MAXYEAR, 12, 31)}

ShadowLengths == 1..MaxShadow

TzInputs == {"UTC", "Asia/Kolkata", "America/Phoenix", "Mars/Olympus_Mons"}

AsrCall ==
    /\ pc = "idle"
    /\ \E lat \in Latitudes, lon \in Longitudes, date \in AsrDates,
          shadow_len \in ShadowLengths, tz \in TzInputs :
          arg' = [lat |-> lat, lon |-> lon, date |-> date,
                  shadow_len |-> shadow_len, tz |-> tz]
    /\ pc' = "called"
    /\ fn' = "asr_time"
    /\ UNCHANGED <<loc, out>>

AsrRun ==
    /\ pc = "called"
    /\ fn = "asr_time"
    /\ \E r \in {asr_time(arg.lat, arg.lon, arg.date, arg.shadow_len, arg.tz)} :
          loc' = r.loc /\ out' = r.out
    /\ pc' = "done"
    /\ UNCHANGED <<fn, arg>>

NextAsr == AsrCall \/ AsrRun \/ Return

SpecAsr == Init /\ [][NextAsr]_vars

AsrDone == pc = "done" /\ fn = "asr_time"

\* the documented operating range of the arguments of asr_time
AsrArgsValid ==
    /\ arg.lat >= -660000 /\ arg.lat <= 660000
    /\ arg.lon >= -1800000 /\ arg.lon <= 1800000
    /\ arg.shadow_len \in {1, 2}

\* C2: for a latitude in [-66, 66], a longitude in [-180, 180], a valid date,
\* shadow length 1 or 2 and a valid timezone id, asr_time returns an "HH:MM"
\* string: asr_utc decomposes into an hour in 0..23 and a minute in 0..59.
C2_AsrAlwaysReturnsClock ==
    (AsrDone /\ AsrArgsValid /\ TzKnown(arg.tz)) =>
        /\ loc.hr \in 0..23
        /\ loc.mn \in 0..59
        /\ out.status = "OK"
        /\ IsClockString(out.value)

\* C4: for the same latitude, longitude and date, asr_utc with shadow length 2
\* is later than or equal to asr_utc with shadow length 1.
C4_HanafiNotEarlier ==
    (AsrDone /\ arg.shadow_len = 2) =>
        LET shafii == AsrLocals(arg.lat, arg.lon, arg.date, 1)
        IN /\ loc.angle < shafii.angle
           /\ loc.cosH <= shafii.cosH
           /\ loc.H >= shafii.H
           /\ loc.asr_utc >= shafii.asr_utc

\* witness: Mecca on 21 June 2024, where the Hanafi instant is strictly later
C4_Witness ==
    /\ AsrDone
    /\ arg.shadow_len = 2
    /\ arg.lat = 214225 /\ arg.lon = 398262 /\ arg.date = Date(2024, 6, 21)
    /\ loc.asr_utc > AsrLocals(arg.lat, arg.lon, arg.date, 1).asr_utc

\* C6: for a latitude in [-66, 66], the denominator of the ratio is not zero
\* and the argument of the inverse cosine is within [-1, 1]: no numeric-domain
\* error at the hour-angle step.
C6_AcosArgumentClamped ==
    (AsrDone /\ arg.lat >= -660000 /\ arg.lat <= 660000) =>
        /\ loc.den # 0
        /\ loc.cosH >= -TrigScale /\ loc.cosH <= TrigScale
        /\ out.status # "ZeroDivisionError"
        /\ out # Raise("ValueError", "math domain error")

\* witness: the ratio as computed is above 1 and the clamp has brought it to 1
C6_Witness ==
    /\ AsrDone
    /\ loc.ratio > TrigScale
    /\ loc.cosH = TrigScale
    /\ loc.H = 0

\* C7: a call with an invalid timezone id and otherwise valid arguments ends
\* in the unknown-timezone error, never in a time string and never in another
\* error raised by an earlier step.
C7_InvalidTzRaisesUnknownTimeZone ==
    (AsrDone /\ AsrArgsValid /\ ~TzKnown(arg.tz)) =>
        out = Raise("UnknownTimeZoneError", arg.tz)

\* the statements of C2 and C7 on the calls whose asr_utc lies in [0, 24),
\* before the last year of datetime: they hold there
AsrReturnsClockWithinDay ==
    (AsrDone /\ AsrArgsValid /\ TzKnown(arg.tz) /\ arg.date.year < MAXYEAR
        /\ loc.asr_utc >= 0 /\ loc.asr_utc < 24 * HourScale) =>
        /\ out.status = "OK"
        /\ IsClockString(out.value)

InvalidTzRaisesWithinDay ==
    (AsrDone /\ AsrArgsValid /\ ~TzKnown(arg.tz)
        /\ loc.asr_utc >= 0 /\ loc.asr_utc < 24 * HourScale) =>
        out = Raise("UnknownTimeZoneError", arg.tz)

\* C9: when asr_utc lies in [0, 24), hr is its floor, in 0..23, and mn is the
\* floor of the remaining minutes, in 0..59: the hour:minute is not later than
\* the computed instant and less than one minute earlier.
C9_TruncatedDecomposition ==
    (AsrDone /\ loc.asr_utc >= 0 /\ loc.asr_utc < 24 * HourScale) =>
        /\ loc.hr \in 0..23
        /\ loc.mn \in 0..59
        /\ loc.hr * HourScale <= loc.asr_utc
        /\ loc.asr_utc < (loc.hr + 1) * HourScale
        /\ (loc.hr * 60 + loc.mn) * HourScale <= loc.asr_utc * 60
        /\ loc.asr_utc * 60 < (loc.hr * 60 + loc.mn + 1) * HourScale

\* witness: an instant more than half a minute past its hour:minute, which
\* rounding would have moved to the next minute
C9_Witness ==
    /\ AsrDone
    /\ out.status = "OK"
    /\ loc.asr_utc >= 0 /\ loc.asr_utc < 24 * HourScale
    /\ 2 * (loc.asr_utc * 60 - (loc.hr * 60 + loc.mn) * HourScale) > HourScale

----------------------------------------------------------------------------
(* Calls of last_third_time *)

\* the "HH:MM" string of an hour and a minute
Clock(h, m) ==
    << DigitChars[(h \div 10) + 1], DigitChars[(h % 10) + 1], ":",
       DigitChars[(m \div 10) + 1], DigitChars[(m % 10) + 1] >>

ClockInputs ==
    {Clock(h, m) : h \in 0..23, m \in {k \in 0..59 : k % MinuteStep = 0}}
    \cup {Clock(24, 0), Clock(12, 60)}

NightDates == {Date(2024, 2, 29), Date(MAXYEAR, 12, 31)}

NightTz == {"UTC", "Asia/Kolkata", "Mars/Olympus_Mons"}

NightCall ==
    /\ pc = "idle"
    /\ \E sunset_str \in ClockInputs, fajr_str \in ClockInputs,
          tz \in NightTz, date \in NightDates :
          arg' = [sunset_str |-> sunset_str, fajr_str |-> fajr_str,
                  tz |-> tz, date |-> date]
    /\ pc' = "called"
    /\ fn' = "last_third_time"
    /\ UNCHANGED <<loc, out>>

NightRun ==
    /\ pc = "called"
    /\ fn = "last_third_time"
    /\ \E r \in {last_third_time(arg.sunset_str, arg.fajr_str, arg.tz, arg.date)} :
          loc' = r.loc /\ out' = r.out
    /\ pc' = "done"
    /\ UNCHANGED <<fn, arg>>

NextNight == NightCall \/ NightRun \/ Return

SpecNight == Init /\ [][NextNight]_vars

NightDone == pc = "done" /\ fn = "last_third_time"

NightStringsValid == IsClockString(arg.sunset_str) /\ IsClockString(arg.fajr_str)

\* the minute of the day a valid clock string names
MinuteOfDay(s) ==
    (10 * DigitVal(s[1]) + DigitVal(s[2])) * 60 + 10 * DigitVal(s[4]) + DigitVal(s[5])

\* the night in minutes: dawn - sunset, dawn moved to the next day when it is
\* not later than sunset
NightMinutes(sunset_str, fajr_str) ==
    LET S == MinuteOfDay(sunset_str)
        F == MinuteOfDay(fajr_str)
    IN IF F <= S THEN F + 1440 - S ELSE F - S

\* the clock time of sunset + 2/3 of the night: 40 seconds a minute of night,
\* seconds truncated, date dropped
ExpectedLastThird(sunset_str, fajr_str) ==
    LET instant == MinuteOfDay(sunset_str) * 60 + 40 * NightMinutes(sunset_str, fajr_str)
        minute == (instant \div 60) % 1440
    IN Clock(minute \div 60, minute % 60)

\* C1: for valid "HH:MM" strings, a valid timezone id and a valid reference
\* date, last_third_time returns the clock time of sunset + 2/3 of the night;
\* ("18:00","04:00") gives "00:40" and ("19:30","05:00") gives "01:50".
C1_LastThirdReturned ==
    (NightDone /\ NightStringsValid /\ TzKnown(arg.tz)) =>
        /\ out.status = "OK"
        /\ out.value = ExpectedLastThird(arg.sunset_str, arg.fajr_str)
        /\ (arg.sunset_str = Clock(18, 0) /\ arg.fajr_str = Clock(4, 0))
              => out.value = <<"0", "0", ":", "4", "0">>
        /\ (arg.sunset_str = Clock(19, 30) /\ arg.fajr_str = Clock(5, 0))
              => out.value = <<"0", "1", ":", "5", "0">>

\* the statement of C1 on the reference dates whose following day is a date
\* of datetime (every date before 9999-12-31): it holds there
LastThirdReturnedBeforeLastDate ==
    (NightDone /\ NightStringsValid /\ TzKnown(arg.tz)
        /\ toordinal(arg.date) < MaxOrdinal) =>
        /\ out.status = "OK"
        /\ out.value = ExpectedLastThird(arg.sunset_str, arg.fajr_str)

NextDayRepresentable(date) == toordinal(date) < MaxOrdinal

\* C10: the result depends only on the two strings: with any other valid
\* timezone id and any other reference date whose following day is
\* representable, the same strings give the same "HH:MM" string.
C10_ResultIndependentOfTzAndDate ==
    (NightDone /\ NightStringsValid /\ TzKnown(arg.tz)
        /\ NextDayRepresentable(arg.date)) =>
        /\ out.status = "OK"
        /\ \A tz2 \in {z \in NightTz : TzKnown(z)} :
           \A date2 \in {d \in NightDates \cup {Date(2023, 12, 31)} : NextDayRepresentable(d)} :
              last_third_time(arg.sunset_str, arg.fajr_str, tz2, date2).out = out

\* witness: a call in Asia/Kolkata (UTC+5:30) on a leap day that returns the
\* "00:40" of ("18:00","04:00")
C10_Witness ==
    /\ NightDone
    /\ arg.tz = "Asia/Kolkata"
    /\ arg.date = Date(2024, 2, 29)
    /\ arg.sunset_str = <<"1", "8", ":", "0", "0">>
    /\ arg.fajr_str = <<"0", "4", ":", "0", "0">>
    /\ out = [status |-> "OK", value |-> <<"0", "0", ":", "4", "0">>]

====
